---- MODULE Spec2Model ----
(***************************************************************************)
(* Model of scripts/test-toml-validation.py: one run of the script opens   *)
(* the fixture '.secrets.toml.test' in binary mode, hands what it read to  *)
(* tomllib.loads, and maps the outcome to printed lines and an exit code.  *)
(* The file system lives on between runs, so the model lets the script be  *)
(* run again and lets the environment rewrite the fixture between runs.    *)
(***************************************************************************)
EXTENDS Integers, Sequences, FiniteSets, TLC

\* ------------------------------------------------------------------ bounds

\* Longest fixture content (in bytes) the environment writes.
MaxLen == 4

\* Cap on the open/read/loads events recorded within one run (the script
\* reaches 3: open, read, loads).
MaxEvents == 4

\* ------------------------------------------------------------ file system

\* The path literal of line 8.
FixturePath == ".secrets.toml.test"

\* A second path, which the script never names.
OtherPath == "other"

Paths == {FixturePath, OtherPath}

\* A mode that creates or truncates the file.
OpenModeTruncating == "w+b"

\* A mode that creates the file and refuses an existing one.
OpenModeExclusive == "x+b"

\* The mode literal of line 8.
OpenMode == "rb"

\* The bytes a fixture is made of: a bare-key letter, '=', and the double quote.
QUOTE == "\""

Alphabet == {"k", "=", QUOTE}

RECURSIVE SeqsOfLen(_)
SeqsOfLen(n) ==
    IF n = 0 THEN {<<>>}
    ELSE {Append(s, c) : s \in SeqsOfLen(n - 1), c \in Alphabet}

Contents == UNION {SeqsOfLen(n) : n \in 0..MaxLen}

\* What a path can be: absent, a regular file without read permission, a file
\* whose medium fails on read, or a readable regular file with some content.
Missing == [kind |-> "missing", content |-> <<>>]
Denied == [kind |-> "denied", content |-> <<>>]
Faulty == [kind |-> "faulty", content |-> <<>>]
RegularFile(c) == [kind |-> "file", content |-> c]

FileStates == {Missing, Denied, Faulty} \cup {RegularFile(c) : c \in Contents}

\* ------------------------------------------------------------- exceptions

NoDetail == [msg |-> "", col |-> -1]

NoExc == [kind |-> "none", detail |-> NoDetail, code |-> -1]

Exc(kind, msg) == [kind |-> kind, detail |-> [msg |-> msg, col |-> -1], code |-> -1]

\* tomllib's suffixed_err: the message with the coordinate of the error
\* (col 0 stands for "at end of document").
DecodeExc(msg, col) ==
    [kind |-> "TOMLDecodeError", detail |-> [msg |-> msg, col |-> col], code |-> -1]

SystemExit(code) == [kind |-> "SystemExit", detail |-> NoDetail, code |-> code]

\* The direct base class of each exception class the script can meet.
Parent(k) ==
    CASE k = "TOMLDecodeError" -> "ValueError"
      [] k = "ValueError" -> "Exception"
      [] k = "TypeError" -> "Exception"
      [] k = "FileNotFoundError" -> "OSError"
      [] k = "PermissionError" -> "OSError"
      [] k = "FileExistsError" -> "OSError"
      [] k = "OSError" -> "Exception"
      [] k = "Exception" -> "BaseException"
      [] k = "SystemExit" -> "BaseException"
      [] OTHER -> "object"

RECURSIVE IsSubclass(_, _)
IsSubclass(k, cls) ==
    IF k = cls THEN TRUE
    ELSE IF k \in {"BaseException", "object", "none"} THEN FALSE
    ELSE IsSubclass(Parent(k), cls)

\* --------------------------------------------------------- open and read

\* open(path, mode): the handle or the OSError raised, and the file system
\* afterwards ("w" creates or truncates the file, "x" creates it and fails
\* if it exists).
OpenFile(fsys, path, mode) ==
    LET st == fsys[path]
        created == [fsys EXCEPT ![path] = RegularFile(<<>>)]
        raise(kind, msg) == [ok |-> FALSE, fs |-> fsys, exc |-> Exc(kind, msg)]
    IN
    CASE mode = "rb" ->
           IF st.kind = "missing"
           THEN raise("FileNotFoundError", "[Errno 2] No such file or directory")
           ELSE IF st.kind = "denied"
           THEN raise("PermissionError", "[Errno 13] Permission denied")
           ELSE [ok |-> TRUE, fs |-> fsys, exc |-> NoExc]
      [] mode = "w+b" ->
           IF st.kind = "denied"
           THEN raise("PermissionError", "[Errno 13] Permission denied")
           ELSE [ok |-> TRUE, fs |-> created, exc |-> NoExc]
      [] mode = "x+b" ->
           IF st.kind = "missing"
           THEN [ok |-> TRUE, fs |-> created, exc |-> NoExc]
           ELSE raise("FileExistsError", "[Errno 17] File exists")

\* f.read() on a handle opened in a binary mode: a bytes object, or OSError.
ReadFile(fsys, path) ==
    LET st == fsys[path] IN
    IF st.kind = "file"
    THEN [ok |-> TRUE, val |-> [type |-> "bytes", val |-> st.content], exc |-> NoExc]
    ELSE [ok |-> FALSE, val |-> [type |-> "none", val |-> <<>>],
          exc |-> Exc("OSError", "[Errno 5] Input/output error")]

\* ---------------------------------------------------------------- tomllib

StartsWith3Q(s, p) ==
    /\ p + 2 <= Len(s)
    /\ s[p] = QUOTE /\ s[p + 1] = QUOTE /\ s[p + 2] = QUOTE

Coord(s, p) == IF p > Len(s) THEN 0 ELSE p

\* parse_basic_str from position p (just past the opening delimiter).
RECURSIVE ParseBasicStr(_, _, _)
ParseBasicStr(s, p, multiline) ==
    IF p > Len(s)
    THEN [ok |-> FALSE, pos |-> p, exc |-> DecodeExc("Unterminated string", 0)]
    ELSE IF s[p] = QUOTE
    THEN IF ~multiline THEN [ok |-> TRUE, pos |-> p + 1, exc |-> NoExc]
         ELSE IF StartsWith3Q(s, p) THEN [ok |-> TRUE, pos |-> p + 3, exc |-> NoExc]
         ELSE ParseBasicStr(s, p + 1, multiline)
    ELSE ParseBasicStr(s, p + 1, multiline)

\* parse_multiline_str: up to two more quotes after the closing delimiter
\* belong to the string.
ParseMultilineStr(s, p) ==
    LET r == ParseBasicStr(s, p + 3, TRUE) IN
    IF ~r.ok THEN r
    ELSE IF ~(r.pos <= Len(s) /\ s[r.pos] = QUOTE) THEN r
    ELSE IF ~(r.pos + 1 <= Len(s) /\ s[r.pos + 1] = QUOTE)
    THEN [r EXCEPT !.pos = r.pos + 1]
    ELSE [r EXCEPT !.pos = r.pos + 2]

RECURSIVE SkipBareKey(_, _)
SkipBareKey(s, p) ==
    IF p <= Len(s) /\ s[p] = "k" THEN SkipBareKey(s, p + 1) ELSE p

\* parse_key_part: a bare key or a quoted one.
ParseKeyPart(s, p) ==
    IF p <= Len(s) /\ s[p] = "k"
    THEN [ok |-> TRUE, pos |-> SkipBareKey(s, p), exc |-> NoExc]
    ELSE IF p <= Len(s) /\ s[p] = QUOTE
    THEN ParseBasicStr(s, p + 1, FALSE)
    ELSE [ok |-> FALSE, pos |-> p,
          exc |-> DecodeExc("Invalid initial character for a key part", Coord(s, p))]

\* parse_value: of the value syntaxes only strings can be spelt in Alphabet.
ParseValue(s, p) ==
    IF p <= Len(s) /\ s[p] = QUOTE
    THEN IF StartsWith3Q(s, p) THEN ParseMultilineStr(s, p)
         ELSE ParseBasicStr(s, p + 1, FALSE)
    ELSE [ok |-> FALSE, pos |-> p, exc |-> DecodeExc("Invalid value", Coord(s, p))]

\* key_value_rule / parse_key_value_pair.
KeyValueRule(s, p) ==
    LET k == ParseKeyPart(s, p) IN
    IF ~k.ok THEN k
    ELSE IF ~(k.pos <= Len(s) /\ s[k.pos] = "=")
    THEN [ok |-> FALSE, pos |-> k.pos,
          exc |-> DecodeExc("Expected '=' after a key in a key/value pair",
                            Coord(s, k.pos))]
    ELSE ParseValue(s, k.pos + 1)

\* The statement loop of tomllib.loads on a str (no newline is in Alphabet,
\* so a document holds at most one statement).
ParseDocument(s) ==
    IF Len(s) = 0 THEN [ok |-> TRUE, exc |-> NoExc]
    ELSE IF s[1] = "="
    THEN [ok |-> FALSE, exc |-> DecodeExc("Invalid statement", 1)]
    ELSE LET r == KeyValueRule(s, 1) IN
         IF ~r.ok THEN [ok |-> FALSE, exc |-> r.exc]
         ELSE IF r.pos <= Len(s)
         THEN [ok |-> FALSE,
               exc |-> DecodeExc("Expected newline or end of document after a statement",
                                 r.pos)]
         ELSE [ok |-> TRUE, exc |-> NoExc]

\* tomllib.loads(arg): only a str is parsed; any other object raises TypeError
\* from the first string operation applied to it.
Loads(arg) ==
    IF arg.type # "str"
    THEN [ok |-> FALSE,
          exc |-> Exc("TypeError", "a bytes-like object is required, not 'str'")]
    ELSE ParseDocument(arg.val)

\* ------------------------------------------------------------ the script

Stmt(op, text, code) == [op |-> op, text |-> text, code |-> code]

\* The first line of each of the three messages (lines 10, 14, 18).
ErrorText == "ERROR: TOML validation should have failed!"

SuccessText == "TOML validation correctly caught error:"

WarningText == "Unexpected error: "

\* Lines 8-12: the with statement (open, the body, leaving the block), then
\* the two prints and sys.exit(1).
TryBody ==
    << Stmt("open", "", -1),
       Stmt("read", "", -1),
       Stmt("loads", "", -1),
       Stmt("endwith", "", -1),
       Stmt("print", ErrorText, -1),
       Stmt("print", "Missing closing quote was not detected!", -1),
       Stmt("exit", "", 1) >>

\* Lines 14-16.
DecodeErrorHandler ==
    << Stmt("print", SuccessText, -1),
       Stmt("print_exc", "", -1),
       Stmt("exit", "", 0) >>

\* The handler exiting with success status.
OtherErrorHandlerExitZero ==
    << Stmt("print_exc", WarningText, -1),
       Stmt("exit", "", 0) >>

\* The handler trying the fixture again before it gives up.
OtherErrorHandlerRetry ==
    << Stmt("print_exc", WarningText, -1),
       Stmt("open", "", -1),
       Stmt("read", "", -1),
       Stmt("loads", "", -1),
       Stmt("endwith", "", -1),
       Stmt("exit", "", 1) >>

\* The handler exiting before it prints.
OtherErrorHandlerExitFirst ==
    << Stmt("exit", "", 1),
       Stmt("print_exc", WarningText, -1) >>

\* Lines 18-19.
OtherErrorHandler ==
    << Stmt("print_exc", WarningText, -1),
       Stmt("exit", "", 1) >>

\* The first clause catching every Exception.
ExceptClausesBroadFirst ==
    << [cls |-> "Exception", body |-> "h1"],
       [cls |-> "Exception", body |-> "h2"] >>

\* The second clause catching only OSError.
ExceptClausesNarrowSecond ==
    << [cls |-> "TOMLDecodeError", body |-> "h1"],
       [cls |-> "OSError", body |-> "h2"] >>

\* Lines 13 and 17: the except clauses in order, each with its handler.
ExceptClauses ==
    << [cls |-> "TOMLDecodeError", body |-> "h1"],
       [cls |-> "Exception", body |-> "h2"] >>

Block(b) ==
    CASE b = "try" -> TryBody
      [] b = "h1" -> DecodeErrorHandler
      [] b = "h2" -> OtherErrorHandler
      [] OTHER -> <<>>

\* The indices of the except clauses that match an exception of class k.
Matching(k) == {i \in 1..Len(ExceptClauses) : IsSubclass(k, ExceptClauses[i].cls)}

Min(S) == CHOOSE x \in S : \A y \in S : x <= y

\* A with block left without the handle being closed.
ReleaseHandleLeak == "open"

\* Line 8: what leaving the with block makes of the handle.
ReleaseHandle == "closed"

NoData == [type |-> "none", val |-> <<>>]

\* One call of open, read or loads and how it ended: "ok" or the class raised.
Event(op, result) == [op |-> op, result |-> result]

VARIABLES
    fs,          \* the file system: path -> file state
    blk,         \* the block being executed: "try", "h1", "h2", "unwind", "exited"
    idx,         \* the statement of the block to execute next
    handle,      \* the file handle f: "none", "open", "closed"
    inWith,      \* inside the with block
    acquired,    \* handles acquired in this run
    trace,       \* the open/read/loads events of this run, in order
    data,        \* what f.read() returned
    exc,         \* the exception in flight
    raisedIn,    \* the block that raised it
    caught,      \* the exception bound to e by the handler entered
    stdout,      \* the lines printed in this run
    exitCode,    \* the process exit status, -1 while running
    uncaught,    \* an exception other than SystemExit reached the interpreter
    seen,        \* the file system when this run started
    prev         \* the outcome of the run before this one

vars ==
    << fs, blk, idx, handle, inWith, acquired, trace, data, exc, raisedIn, caught,
       stdout, exitCode, uncaught, seen, prev >>

NoPrev == [valid |-> FALSE, unchanged |-> FALSE, out |-> <<>>, code |-> -1,
           uncaught |-> FALSE]

Init ==
    /\ fs \in [Paths -> FileStates]
    /\ fs[OtherPath] \in {Missing, RegularFile(<<>>)}
    /\ blk = "try" /\ idx = 1
    /\ handle = "none" /\ inWith = FALSE /\ acquired = 0
    /\ trace = <<>> /\ data = NoData
    /\ exc = NoExc /\ raisedIn = "none" /\ caught = NoExc
    /\ stdout = <<>> /\ exitCode = -1 /\ uncaught = FALSE
    /\ seen = fs
    /\ prev = NoPrev

Running == blk \in {"try", "h1", "h2"} /\ idx <= Len(Block(blk))

Cur == Block(blk)[idx]

\* Line 8: open('.secrets.toml.test', 'rb').
ExecOpen ==
    /\ Running /\ Cur.op = "open"
    /\ Len(trace) < MaxEvents
    /\ LET r == OpenFile(fs, FixturePath, OpenMode) IN
       /\ fs' = r.fs
       /\ IF r.ok
          THEN /\ handle' = "open" /\ inWith' = TRUE /\ acquired' = acquired + 1
               /\ trace' = Append(trace, Event("open", "ok"))
               /\ idx' = idx + 1
               /\ UNCHANGED <<blk, exc, raisedIn>>
          ELSE /\ trace' = Append(trace, Event("open", r.exc.kind))
               /\ exc' = r.exc /\ raisedIn' = blk /\ blk' = "unwind"
               /\ UNCHANGED <<handle, inWith, acquired, idx>>
    /\ UNCHANGED <<data, caught, stdout, exitCode, uncaught, seen, prev>>

\* Line 9: f.read().
ExecRead ==
    /\ Running /\ Cur.op = "read"
    /\ Len(trace) < MaxEvents
    /\ LET r == ReadFile(fs, FixturePath) IN
       IF r.ok
       THEN /\ data' = r.val
            /\ trace' = Append(trace, Event("read", "ok"))
            /\ idx' = idx + 1
            /\ UNCHANGED <<blk, exc, raisedIn>>
       ELSE /\ trace' = Append(trace, Event("read", r.exc.kind))
            /\ exc' = r.exc /\ raisedIn' = blk /\ blk' = "unwind"
            /\ UNCHANGED <<data, idx>>
    /\ UNCHANGED <<fs, handle, inWith, acquired, caught, stdout, exitCode, uncaught,
                   seen, prev>>

\* Line 9: tomllib.loads(...) on what was read.
ExecLoads ==
    /\ Running /\ Cur.op = "loads"
    /\ Len(trace) < MaxEvents
    /\ LET r == Loads(data) IN
       IF r.ok
       THEN /\ trace' = Append(trace, Event("loads", "ok"))
            /\ idx' = idx + 1
            /\ UNCHANGED <<blk, exc, raisedIn>>
       ELSE /\ trace' = Append(trace, Event("loads", r.exc.kind))
            /\ exc' = r.exc /\ raisedIn' = blk /\ blk' = "unwind"
            /\ UNCHANGED idx
    /\ UNCHANGED <<fs, handle, inWith, acquired, data, caught, stdout, exitCode,
                   uncaught, seen, prev>>

\* Line 8: leaving the with block, at its end or by an exception raised in it.
WithExit ==
    /\ inWith
    /\ \/ blk = "unwind"
       \/ Running /\ Cur.op = "endwith"
    /\ handle' = ReleaseHandle
    /\ inWith' = FALSE
    /\ idx' = IF blk = "unwind" THEN idx ELSE idx + 1
    /\ UNCHANGED <<fs, blk, acquired, trace, data, exc, raisedIn, caught, stdout,
                   exitCode, uncaught, seen, prev>>

\* Lines 10, 11, 14, 15, 18: print, of a fixed text or of the caught exception.
ExecPrint ==
    /\ Running /\ Cur.op \in {"print", "print_exc"}
    /\ stdout' = Append(stdout,
                        [text |-> Cur.text,
                         detail |-> IF Cur.op = "print_exc" THEN caught.detail
                                    ELSE NoDetail])
    /\ idx' = idx + 1
    /\ UNCHANGED <<fs, blk, handle, inWith, acquired, trace, data, exc, raisedIn,
                   caught, exitCode, uncaught, seen, prev>>

\* Lines 12, 16, 19: sys.exit(code) raises SystemExit.
ExecExit ==
    /\ Running /\ Cur.op = "exit"
    /\ exc' = SystemExit(Cur.code)
    /\ raisedIn' = blk
    /\ blk' = "unwind"
    /\ UNCHANGED <<fs, idx, handle, inWith, acquired, trace, data, caught, stdout,
                   exitCode, uncaught, seen, prev>>

\* Lines 13, 17: an exception raised in the try body enters the first except
\* clause whose class it is an instance of.
Dispatch ==
    /\ blk = "unwind" /\ ~inWith
    /\ raisedIn = "try" /\ Matching(exc.kind) # {}
    /\ blk' = ExceptClauses[Min(Matching(exc.kind))].body
    /\ idx' = 1
    /\ caught' = exc
    /\ exc' = NoExc
    /\ UNCHANGED <<fs, handle, inWith, acquired, trace, data, raisedIn, stdout,
                   exitCode, uncaught, seen, prev>>

\* An exception no clause takes (raised in a handler, or of no listed class)
\* reaches the interpreter: SystemExit sets the exit status, anything else is
\* reported as a traceback with status 1.
Propagate ==
    /\ blk = "unwind" /\ ~inWith
    /\ raisedIn # "try" \/ Matching(exc.kind) = {}
    /\ blk' = "exited"
    /\ exitCode' = IF exc.kind = "SystemExit" THEN exc.code ELSE 1
    /\ uncaught' = (exc.kind # "SystemExit")
    /\ UNCHANGED <<fs, idx, handle, inWith, acquired, trace, data, exc, raisedIn,
                   caught, stdout, seen, prev>>

\* The script is run again, on the fixture as the environment left it:
\* untouched (st is what the last run left) or rewritten.
RunAgain ==
    /\ blk = "exited"
    /\ \E st \in FileStates :
          /\ fs' = [fs EXCEPT ![FixturePath] = st]
          /\ prev' = [valid |-> TRUE, unchanged |-> (st = fs[FixturePath]),
                      out |-> stdout, code |-> exitCode, uncaught |-> uncaught]
    /\ seen' = fs'
    /\ blk' = "try" /\ idx' = 1
    /\ handle' = "none" /\ inWith' = FALSE /\ acquired' = 0
    /\ trace' = <<>> /\ data' = NoData
    /\ exc' = NoExc /\ raisedIn' = "none" /\ caught' = NoExc
    /\ stdout' = <<>> /\ exitCode' = -1 /\ uncaught' = FALSE

ScriptStep ==
    \/ ExecOpen
    \/ ExecRead
    \/ ExecLoads
    \/ WithExit
    \/ ExecPrint
    \/ ExecExit
    \/ Dispatch
    \/ Propagate

Next ==
    \/ ScriptStep
    \/ RunAgain

Spec == Init /\ [][Next]_vars

\* The interpreter runs the script's next statement whenever there is one.
FairSpec == Spec /\ WF_vars(ScriptStep)

\* ------------------------------------------------------- reading a run

\* The outcome bucket a printed line opens ("none" for a continuation line).
BucketOf(line) ==
    CASE line.text = ErrorText -> "UnexpectedSuccess"
      [] line.text = SuccessText -> "ExpectedFailureCaught"
      [] line.text = WarningText -> "UnexpectedError"
      [] OTHER -> "none"

Buckets(out) == {BucketOf(out[i]) : i \in 1..Len(out)} \ {"none"}

Calls(op) == {i \in 1..Len(trace) : trace[i].op = op}

\* How the decoder call of this run ended: "notcalled", "ok" or the class raised.
DecoderOutcome ==
    IF Calls("loads") = {} THEN "notcalled" ELSE trace[Min(Calls("loads"))].result

\* The fixture this run found.
Fixture == seen[FixturePath]

\* The text is a key, '=', and a string value whose closing quote is missing.
MissingClosingQuote(c) ==
    LET k == ParseKeyPart(c, 1) IN
    /\ Len(c) > 0 /\ c[1] = "k"
    /\ k.ok /\ k.pos <= Len(c) /\ c[k.pos] = "="
    /\ ~ParseValue(c, k.pos + 1).ok
    /\ ParseValue(c, k.pos + 1).exc.detail.msg = "Unterminated string"

WellFormed(c) == ParseDocument(c).ok

Exited == blk = "exited"

\* ----------------------------------------------------------------- claims

\* C1: when the fixture exists, is readable and holds a string value missing
\* its closing quote, the decode call raises TOMLDecodeError, the script prints
\* the "TOML validation correctly caught error" message followed by the error
\* detail, and exits with status 0.
C1_MalformedFixtureIsCaught ==
    (Exited /\ Fixture.kind = "file" /\ MissingClosingQuote(Fixture.content))
    => /\ DecoderOutcome = "TOMLDecodeError"
       /\ Len(stdout) = 2
       /\ stdout[1].text = SuccessText
       /\ stdout[2].detail.msg = "Unterminated string"
       /\ exitCode = 0

\* C2: when the fixture exists, is readable and holds well-formed TOML, the
\* decode call succeeds, the script prints the unexpected-success message (not
\* the warning) and exits with status 1.
C2_WellFormedFixtureIsReported ==
    (Exited /\ Fixture.kind = "file" /\ WellFormed(Fixture.content))
    => /\ DecoderOutcome = "ok"
       /\ Len(stdout) >= 1
       /\ stdout[1].text = ErrorText
       /\ "UnexpectedError" \notin Buckets(stdout)
       /\ exitCode = 1

\* C3: when the fixture is missing, open raises a file-not-found-class error
\* that is not a decode error, the decoder is never called, and the script
\* prints the warning message with the error and exits with status 1; the
\* success message is never printed in this case.
C3_MissingFixtureWarns ==
    /\ (Fixture.kind = "missing" => "ExpectedFailureCaught" \notin Buckets(stdout))
    /\ (Exited /\ Fixture.kind = "missing")
       => /\ trace = << Event("open", "FileNotFoundError") >>
          /\ IsSubclass(caught.kind, "OSError")
          /\ ~IsSubclass(caught.kind, "TOMLDecodeError")
          /\ DecoderOutcome = "notcalled"
          /\ stdout = << [text |-> WarningText, detail |-> caught.detail] >>
          /\ exitCode = 1

C3_Witness ==
    /\ Exited /\ Fixture.kind = "missing"
    /\ caught.kind = "FileNotFoundError"
    /\ Buckets(stdout) = {"UnexpectedError"}
    /\ exitCode = 1

\* C4: for every run and every fixture state, the exit code is 0 if and only
\* if the outcome bucket is Expected-Failure-Caught (the decoder raised its
\* decode-error class), it is 1 exactly when the bucket is Unexpected-Success
\* or Unexpected-Error, and no other exit code is produced.
C4_ExitCodeMatchesBucket ==
    Exited
    => /\ exitCode \in {0, 1}
       /\ exitCode = 0 <=> Buckets(stdout) = {"ExpectedFailureCaught"}
       /\ exitCode = 0 <=> DecoderOutcome = "TOMLDecodeError"
       /\ exitCode = 1 <=> \/ Buckets(stdout) = {"UnexpectedSuccess"}
                           \/ Buckets(stdout) = {"UnexpectedError"}

C4_Witness ==
    /\ Exited /\ Fixture.kind = "file" /\ ~WellFormed(Fixture.content)
    /\ DecoderOutcome \notin {"notcalled", "ok", "TOMLDecodeError"}
    /\ Buckets(stdout) = {"UnexpectedError"}
    /\ exitCode = 1

\* C5: every run terminates, and on every path the outcome is turned into one
\* printed message plus an explicit exit code: no exception raised by open,
\* read or decode escapes the script uncaught.
C5_TerminatesAndNothingEscapes ==
    /\ [](Exited => /\ ~uncaught
                    /\ exitCode \in {0, 1}
                    /\ exc.kind = "SystemExit"
                    /\ Cardinality(Buckets(stdout)) = 1)
    /\ (~Exited ~> Exited)

C5_Witness ==
    /\ Exited /\ ~uncaught
    /\ DecoderOutcome = "TypeError" /\ caught.kind = "TypeError"
    /\ Cardinality(Buckets(stdout)) = 1
    /\ exitCode = 1

\* C6: the file handle is acquired at most once per run and is released on
\* every exit path: whenever a message has been printed or the script exits,
\* the handle is not open, also when read or decode raised inside the with
\* block; if open itself failed no handle is ever held.
C6_HandleReleased ==
    /\ acquired <= 1
    /\ (stdout # <<>> \/ exc.kind = "SystemExit" \/ Exited) => handle # "open"
    /\ (Len(trace) >= 1 /\ trace[1].op = "open" /\ trace[1].result # "ok")
       => (handle = "none" /\ acquired = 0)

C6_Witness ==
    /\ Exited /\ acquired = 1 /\ handle = "closed"
    /\ \E i \in 1..Len(trace) : trace[i].op \in {"read", "loads"} /\ trace[i].result # "ok"

\* C7: two runs against the same unchanged fixture produce the same printed
\* messages and the same exit code (hence the same bucket): the first run does
\* not influence the second.
C7_RunsAgree ==
    (Exited /\ prev.valid /\ prev.unchanged)
    => /\ stdout = prev.out
       /\ Buckets(stdout) = Buckets(prev.out)
       /\ exitCode = prev.code
       /\ uncaught = prev.uncaught

C7_Witness ==
    /\ Exited /\ prev.valid /\ prev.unchanged
    /\ Fixture.kind = "missing"
    /\ stdout = prev.out /\ stdout # <<>>
    /\ exitCode = prev.code

\* C8: a run leaves the file system unchanged: no step of the script changes
\* the presence or content of the fixture or of any other file, so at exit the
\* file system is what the run found.
C8_FileSystemUntouched ==
    [][ /\ (~Exited => fs' = fs)
        /\ (Exited' => fs' = seen') ]_vars

C8_Witness ==
    /\ Exited /\ acquired = 1
    /\ Fixture.kind = "file" /\ Fixture.content # <<>>
    /\ fs = seen

\* C9: one-shot: in a run the fixture is opened at most once and the decoder
\* is called at most once; after an error from open, read or decode nothing is
\* attempted again; the decoder is called only after open and read succeeded.
C9_OneShot ==
    /\ Cardinality(Calls("open")) <= 1
    /\ Cardinality(Calls("loads")) <= 1
    /\ \A i \in 1..Len(trace) : trace[i].result # "ok" => i = Len(trace)
    /\ \A i \in Calls("loads") :
          /\ i = 3
          /\ trace[1] = Event("open", "ok")
          /\ trace[2] = Event("read", "ok")

C9_Witness ==
    /\ Exited
    /\ Len(trace) = 3
    /\ trace[3].op = "loads" /\ trace[3].result # "ok"

\* C10: exactly one of the three message buckets is printed per run, and it is
\* printed before the exit status is set; the unexpected-success message is
\* never followed by another bucket's message, and an exit code once set is not
\* rewritten within the run; no except clause takes the SystemExit that
\* sys.exit raises.
C10_OneBucketThenExit ==
    [][ /\ Matching("SystemExit") = {}
        /\ Cardinality(Buckets(stdout')) <= 1
        /\ (Buckets(stdout) # {} /\ ~Exited) => Buckets(stdout') = Buckets(stdout)
        /\ (exc'.kind = "SystemExit" \/ Exited') => Cardinality(Buckets(stdout')) = 1
        /\ (exitCode # -1 /\ ~Exited) => exitCode' = exitCode
        /\ (Exited /\ Exited') => (exitCode' = exitCode /\ stdout' = stdout) ]_vars

C10_Witness ==
    /\ Exited
    /\ Len(stdout) = 1 /\ BucketOf(stdout[1]) = "UnexpectedError"
    /\ exc = SystemExit(1) /\ raisedIn = "h2"
    /\ exitCode = 1

====
